---- MODULE Spec2Model ----
(***************************************************************************)
(* Asterix backend: the data-extraction orchestrator                       *)
(* (backend/api/services/data_extraction.py, DataExtractionService), the   *)
(* ExtractionSession rows it commits to the store, and the two read-only   *)
(* queries get_extraction_status / get_extraction_results.                 *)
(*                                                                         *)
(* Two layers of state are kept apart:                                     *)
(*   sess[r]   the ExtractionSession object held by run r (the attribute   *)
(*             values the code has assigned, committed or not);            *)
(*   rows/facts the committed store, i.e. what any other database session  *)
(*             (a concurrent get_status request) reads.                    *)
(* A run is cut into steps at its suspension points and at its commits.    *)
(* A commit of the try block either goes through or raises and writes      *)
(* nothing; the elapsed-time subtraction raises when the store hands back  *)
(* created_at with a time zone (the column is DateTime(timezone=True)).    *)
(* No rollback() is ever called, so once a commit of a run has raised its  *)
(* SQLAlchemy session stays invalidated and its later commits raise too.   *)
(* Coordinates are integers in units of 1/10000 degree.                    *)
(***************************************************************************)
EXTENDS Integers, Sequences, FiniteSets, TLC

\* ---------------------------------------------------------------- bounds
MaxRuns == 2

Runs == 1..MaxRuns

ExtractionIds == {"e1", "e2"}

\* ------------------------------------------------------------- constants
LatLimit == 900000

LonLimit == 1800000

\* impact coordinates offered to a run: the two inclusive corners, a latitude
\* just above 90 and a longitude just below -180
Coords ==
  { <<LatLimit, LonLimit>>, <<-LatLimit, -LonLimit>>, <<LatLimit + 1, 0>>,
    <<0, -(LonLimit + 1)>> }

Stages == 1..5

Adapters == 1..4

\* progress_percentage written after stage k has succeeded
Checkpoint(k) == 20 * k

\* current_step written together with Checkpoint(k), k = 0..4
StepLabel(k) ==
  CASE k = 0 -> "Extracting asteroid data"
    [] k = 1 -> "Extracting topography data"
    [] k = 2 -> "Extracting geological data"
    [] k = 3 -> "Extracting regional data"
    [] k = 4 -> "Calculating impact effects"

\* ------------------------------------------------------- session records
\* the columns of ExtractionSession the orchestrator writes; "absent"
\* stands for "no such row / no such object"
NoSession ==
  [status |-> "absent", progress |-> 0, current_step |-> "", errors |-> <<>>,
   elapsed |-> "unset", lat |-> 0, lon |-> 0]

\* _create_extraction_session: the constructor call
NewSession(c) ==
  [status |-> "pending", progress |-> 0, current_step |-> "Initializing",
   errors |-> <<>>, elapsed |-> "unset", lat |-> c[1], lon |-> c[2]]

\* the coordinate test shared by the topography, geology and regional
\* adapters: not (-90 <= latitude <= 90), not (-180 <= longitude <= 180)
\* ValidLatitude as it would be if the bounds were exclusive
ValidLatitude_Exclusive(lat) == -LatLimit < lat /\ lat < LatLimit

ValidLatitude(lat) == -LatLimit <= lat /\ lat <= LatLimit

ValidLongitude(lon) == -LonLimit <= lon /\ lon <= LonLimit

ValidCoordinates(lat, lon) == ValidLatitude(lat) /\ ValidLongitude(lon)

VARIABLES
  rows,      \* store: extraction_id -> committed ExtractionSession row
  facts,     \* store: extraction_id -> stage -> number of committed records of that stage
  hist,      \* per extraction_id, the <<status, progress, current_step>> committed, in order
  pc,        \* per run, the position of extract_comprehensive_data
  stage,     \* per run, the stage (1..5) it is in; 0 before the first, 6 after the last
  xid,       \* per run, its extraction_id ("none" before the call)
  loc,       \* per run, the <<latitude, longitude>> it was called with
  sess,      \* per run, the ExtractionSession object it holds
  calls,     \* per run, the stages whose adapter / engine was invoked, in order
  failedAt,  \* per run, the exception that reached the except clause: [stage, kind]
  txFailed,  \* per run, a commit of its database session has raised (no rollback follows)
  raised,    \* per run, the exception that left the call ("none" if none)
  reply,     \* what the latest get_extraction_status / get_extraction_results returned
  eng        \* a function called on its own (the impact engine, one of its helpers,
             \* an adapter's parser): its input, the clock, the results returned

vars ==
  <<rows, facts, hist, pc, stage, xid, loc, sess, calls, failedAt, txFailed, raised,
    reply, eng>>

\* the state of the runs, which the two queries leave alone
runVars == <<rows, facts, hist, pc, stage, xid, loc, sess, calls, failedAt, txFailed, raised>>

NoFacts == [k \in Stages |-> 0]

NoFailure == [stage |-> 0, kind |-> "none"]

NoReply == [op |-> "none", id |-> "none", kind |-> "none", session |-> NoSession,
            found |-> NoFacts]

\* the engine before any input is handed to it
NoEngine == [input |-> "none", now |-> 0, results |-> <<>>]

\* str(e) of the exception raised at a failure point
Message(f) ==
  CASE f.kind = "adapter"    -> "adapter failed"
    [] f.kind = "latitude"   -> "Invalid latitude"
    [] f.kind = "longitude"  -> "Invalid longitude"
    [] f.kind = "persist"    -> "commit failed"
    [] f.kind = "checkpoint" -> "commit failed"
    [] f.kind = "engine"     -> "engine failed"
    [] f.kind = "elapsed"    -> "can't subtract offset-naive and offset-aware datetimes"
    [] OTHER                 -> "none"

Init ==
  /\ rows = [i \in ExtractionIds |-> NoSession]
  /\ facts = [i \in ExtractionIds |-> NoFacts]
  /\ hist = [i \in ExtractionIds |-> <<>>]
  /\ pc = [r \in Runs |-> "idle"]
  /\ stage = [r \in Runs |-> 0]
  /\ xid = [r \in Runs |-> "none"]
  /\ loc = [r \in Runs |-> <<0, 0>>]
  /\ sess = [r \in Runs |-> NoSession]
  /\ calls = [r \in Runs |-> <<>>]
  /\ failedAt = [r \in Runs |-> NoFailure]
  /\ txFailed = [r \in Runs |-> FALSE]
  /\ raised = [r \in Runs |-> "none"]
  /\ reply = NoReply
  /\ eng = NoEngine

\* ------------------------------------------------------------ the store
\* CommitSession as it would be if the UPDATE were not restricted to the
\* row of the run's own extraction_id
CommitSession_EveryRow(r, s) ==
  /\ rows' = [i \in ExtractionIds |-> IF rows[i].status = "absent" THEN rows[i] ELSE s]
  /\ hist' = [hist EXCEPT ![xid[r]] = Append(@, <<s.status, s.progress, s.current_step>>)]

\* self.db.commit() of run r succeeding while its session object is s: the
\* row of its extraction_id becomes s and the write is appended to hist
CommitSession(r, s) ==
  /\ rows' = [rows EXCEPT ![xid[r]] = s]
  /\ hist' = [hist EXCEPT ![xid[r]] = Append(@, <<s.status, s.progress, s.current_step>>)]

\* control enters the except clause of extract_comprehensive_data
Fail(r, k, kind, tx) ==
  /\ pc' = [pc EXCEPT ![r] = "handler"]
  /\ failedAt' = [failedAt EXCEPT ![r] = [stage |-> k, kind |-> kind]]
  /\ txFailed' = [txFailed EXCEPT ![r] = tx]

\* ------------------------------------------------- extract_comprehensive_data
\* Create as it would be if extraction_id carried no unique index
Create_NoUniqueIndex(r, id, c) ==
  /\ pc[r] = "idle"
  /\ xid' = [xid EXCEPT ![r] = id]
  /\ loc' = [loc EXCEPT ![r] = c]
  /\ pc' = [pc EXCEPT ![r] = "created"]
  /\ sess' = [sess EXCEPT ![r] = NewSession(c)]
  /\ rows' = [rows EXCEPT ![id] = NewSession(c)]
  /\ hist' = [hist EXCEPT ![id] = Append(@, <<"pending", 0, "Initializing">>)]
  /\ UNCHANGED <<raised, txFailed>>
  /\ UNCHANGED <<facts, stage, calls, failedAt, reply, eng>>

\* lines 56-63 and _create_extraction_session: the row is inserted and
\* committed outside the try block; extraction_id carries a unique index
Create(r, id, c) ==
  /\ pc[r] = "idle"
  /\ xid' = [xid EXCEPT ![r] = id]
  /\ loc' = [loc EXCEPT ![r] = c]
  /\ IF rows[id].status # "absent"
       THEN /\ pc' = [pc EXCEPT ![r] = "raised"]
            /\ raised' = [raised EXCEPT ![r] = "IntegrityError"]
            /\ txFailed' = [txFailed EXCEPT ![r] = TRUE]
            /\ UNCHANGED <<rows, hist, sess>>
       ELSE /\ pc' = [pc EXCEPT ![r] = "created"]
            /\ sess' = [sess EXCEPT ![r] = NewSession(c)]
            /\ rows' = [rows EXCEPT ![id] = NewSession(c)]
            /\ hist' = [hist EXCEPT ![id] = Append(@, <<"pending", 0, "Initializing">>)]
            /\ UNCHANGED <<raised, txFailed>>
  /\ UNCHANGED <<facts, stage, calls, failedAt, reply, eng>>

\* Begin as it would be if the topography adapter were called first
Begin_TopographyFirst(r) ==
  /\ pc[r] = "created"
  /\ LET s == [sess[r] EXCEPT !.status = "in_progress",
                              !.current_step = StepLabel(0)]
     IN /\ sess' = [sess EXCEPT ![r] = s]
        /\ CommitSession(r, s)
        /\ pc' = [pc EXCEPT ![r] = "call"]
        /\ stage' = [stage EXCEPT ![r] = 2]
        /\ calls' = [calls EXCEPT ![r] = Append(@, 2)]
  /\ UNCHANGED <<facts, xid, loc, raised, reply, failedAt, txFailed, eng>>

\* lines 66-72: status in_progress, commit, then the asteroid adapter is called
Begin(r) ==
  /\ pc[r] = "created"
  /\ LET s == [sess[r] EXCEPT !.status = "in_progress",
                              !.current_step = StepLabel(0)]
     IN /\ sess' = [sess EXCEPT ![r] = s]
        /\ \E ok \in BOOLEAN :
             IF ok
               THEN /\ CommitSession(r, s)
                    /\ pc' = [pc EXCEPT ![r] = "call"]
                    /\ stage' = [stage EXCEPT ![r] = 1]
                    /\ calls' = [calls EXCEPT ![r] = Append(@, 1)]
                    /\ UNCHANGED <<failedAt, txFailed>>
               ELSE /\ Fail(r, 1, "checkpoint", TRUE)
                    /\ UNCHANGED <<rows, hist, stage, calls>>
  /\ UNCHANGED <<facts, xid, loc, raised, reply, eng>>

\* AdapterReturn as it would be if a failed adapter were invoked a second time
AdapterReturn_Retries(r) ==
  /\ pc[r] = "call"
  /\ stage[r] \in Adapters
  /\ IF stage[r] > 1 /\ ~ValidLatitude(sess[r].lat)
       THEN Fail(r, stage[r], "latitude", FALSE) /\ UNCHANGED calls
     ELSE IF stage[r] > 1 /\ ~ValidLongitude(sess[r].lon)
       THEN Fail(r, stage[r], "longitude", FALSE) /\ UNCHANGED calls
     ELSE \E ok \in BOOLEAN :
            IF ok
              THEN /\ pc' = [pc EXCEPT ![r] = "save"]
                   /\ UNCHANGED <<failedAt, txFailed, calls>>
            ELSE IF Len(calls[r]) = stage[r]
              THEN /\ calls' = [calls EXCEPT ![r] = Append(@, stage[r])]
                   /\ UNCHANGED <<pc, failedAt, txFailed>>
            ELSE Fail(r, stage[r], "adapter", FALSE) /\ UNCHANGED calls
  /\ UNCHANGED <<rows, facts, hist, stage, xid, loc, sess, raised, reply, eng>>

\* the awaited adapter of stage 1..4 finishes: extract_asteroid_data has no
\* coordinates; the other three test the coordinates first, then fetch
AdapterReturn(r) ==
  /\ pc[r] = "call"
  /\ stage[r] \in Adapters
  /\ IF stage[r] > 1 /\ ~ValidLatitude(sess[r].lat)
       THEN Fail(r, stage[r], "latitude", FALSE)
     ELSE IF stage[r] > 1 /\ ~ValidLongitude(sess[r].lon)
       THEN Fail(r, stage[r], "longitude", FALSE)
     ELSE \E ok \in BOOLEAN :
            IF ok
              THEN /\ pc' = [pc EXCEPT ![r] = "save"]
                   /\ UNCHANGED <<failedAt, txFailed>>
              ELSE Fail(r, stage[r], "adapter", FALSE)
  /\ UNCHANGED <<rows, facts, hist, stage, xid, loc, sess, calls, raised, reply, eng>>

\* SaveFact as it would be if the record were returned without being stored
SaveFact_NotStored(r) ==
  /\ pc[r] = "save"
  /\ pc' = [pc EXCEPT ![r] = IF stage[r] = 5 THEN "finalize" ELSE "checkpoint"]
  /\ UNCHANGED <<rows, facts, hist, stage, xid, loc, sess, calls, raised, reply,
                 failedAt, txFailed, eng>>

\* _extract_*_data after the adapter returned, and _calculate_impact_effects
\* after the engine returned: the record is added and committed
SaveFact(r) ==
  /\ pc[r] = "save"
  /\ \E ok \in BOOLEAN :
       IF ok
         THEN /\ facts' = [facts EXCEPT ![xid[r]][stage[r]] = @ + 1]
              /\ pc' = [pc EXCEPT ![r] = IF stage[r] = 5 THEN "finalize" ELSE "checkpoint"]
              /\ UNCHANGED <<failedAt, txFailed>>
         ELSE /\ Fail(r, stage[r], "persist", TRUE)
              /\ UNCHANGED facts
  /\ UNCHANGED <<rows, hist, stage, xid, loc, sess, calls, raised, reply, eng>>

\* lines 74-77, 84-87, 94-97, 104-107: progress and current_step after stage
\* 1..4, committed; then the next adapter is called (after stage 4, the
\* engine stage starts)
WriteCheckpoint(r) ==
  /\ pc[r] = "checkpoint"
  /\ LET k == stage[r]
         s == [sess[r] EXCEPT !.progress = Checkpoint(k),
                              !.current_step = StepLabel(k)]
     IN /\ sess' = [sess EXCEPT ![r] = s]
        /\ \E ok \in BOOLEAN :
             IF ok
               THEN /\ CommitSession(r, s)
                    /\ stage' = [stage EXCEPT ![r] = k + 1]
                    /\ pc' = [pc EXCEPT ![r] = IF k = 4 THEN "compute" ELSE "call"]
                    /\ calls' = [calls EXCEPT ![r] = IF k = 4 THEN @ ELSE Append(@, k + 1)]
                    /\ UNCHANGED <<failedAt, txFailed>>
               ELSE /\ Fail(r, k + 1, "checkpoint", TRUE)
                    /\ UNCHANGED <<rows, hist, stage, calls>>
  /\ UNCHANGED <<facts, xid, loc, raised, reply, eng>>

\* _calculate_impact_effects lines 343-364: the engine is called with the
\* four facts; it returns or raises
Compute(r) ==
  /\ pc[r] = "compute"
  /\ calls' = [calls EXCEPT ![r] = Append(@, 5)]
  /\ \E ok \in BOOLEAN :
       IF ok
         THEN /\ pc' = [pc EXCEPT ![r] = "save"]
              /\ UNCHANGED <<failedAt, txFailed>>
         ELSE Fail(r, 5, "engine", FALSE)
  /\ UNCHANGED <<rows, facts, hist, stage, xid, loc, sess, raised, reply, eng>>

\* Finalize as it would be if the elapsed time were not assigned
Finalize_NoElapsed(r) ==
  /\ pc[r] = "finalize"
  /\ LET s == [sess[r] EXCEPT !.progress = 100, !.status = "completed",
                              !.current_step = "Completed"]
     IN \E outcome \in {"ok", "commit"} :
          CASE outcome = "ok" ->
                 /\ sess' = [sess EXCEPT ![r] = s]
                 /\ CommitSession(r, s)
                 /\ pc' = [pc EXCEPT ![r] = "returned"]
                 /\ stage' = [stage EXCEPT ![r] = 6]
                 /\ UNCHANGED <<failedAt, txFailed>>
            [] outcome = "commit" ->
                 /\ sess' = [sess EXCEPT ![r] = s]
                 /\ Fail(r, 6, "checkpoint", TRUE)
                 /\ UNCHANGED <<rows, hist, stage>>
  /\ UNCHANGED <<facts, xid, loc, calls, raised, reply, eng>>

\* lines 115-122: progress 100, status completed, current_step, then the
\* elapsed time (datetime.utcnow() - session.created_at raises TypeError when
\* the store returns created_at with a time zone), then the commit
Finalize(r) ==
  /\ pc[r] = "finalize"
  /\ LET s == [sess[r] EXCEPT !.progress = 100, !.status = "completed",
                              !.current_step = "Completed"]
         t == [s EXCEPT !.elapsed = "set"]
     IN \E outcome \in {"ok", "elapsed", "commit"} :
          CASE outcome = "ok" ->
                 /\ sess' = [sess EXCEPT ![r] = t]
                 /\ CommitSession(r, t)
                 /\ pc' = [pc EXCEPT ![r] = "returned"]
                 /\ stage' = [stage EXCEPT ![r] = 6]
                 /\ UNCHANGED <<failedAt, txFailed>>
            [] outcome = "elapsed" ->
                 /\ sess' = [sess EXCEPT ![r] = s]
                 /\ Fail(r, 6, "elapsed", FALSE)
                 /\ UNCHANGED <<rows, hist, stage>>
            [] outcome = "commit" ->
                 /\ sess' = [sess EXCEPT ![r] = t]
                 /\ Fail(r, 6, "checkpoint", TRUE)
                 /\ UNCHANGED <<rows, hist, stage>>
  /\ UNCHANGED <<facts, xid, loc, calls, raised, reply, eng>>

\* Handler as it would be if the except clause did not assign errors
Handler_NoErrorEntry(r) ==
  /\ pc[r] = "handler"
  /\ LET msg == Message(failedAt[r])
         s == [sess[r] EXCEPT !.status = "failed",
                              !.current_step = "Error: " \o msg]
     IN /\ sess' = [sess EXCEPT ![r] = s]
        /\ IF ~txFailed[r]
             THEN /\ CommitSession(r, s)
                  /\ raised' = [raised EXCEPT ![r] = msg]
             ELSE /\ raised' = [raised EXCEPT ![r] = "PendingRollbackError"]
                  /\ UNCHANGED <<rows, hist>>
  /\ pc' = [pc EXCEPT ![r] = "raised"]
  /\ UNCHANGED <<facts, stage, xid, loc, calls, failedAt, txFailed, reply, eng>>

\* Handler as it would be if the except clause also reset the progress
Handler_ResetsProgress(r) ==
  /\ pc[r] = "handler"
  /\ LET msg == Message(failedAt[r])
         s == [sess[r] EXCEPT !.status = "failed",
                              !.progress = 0,
                              !.current_step = "Error: " \o msg,
                              !.errors = << [error |-> msg, timestamp |-> "utcnow"] >>]
     IN /\ sess' = [sess EXCEPT ![r] = s]
        /\ IF ~txFailed[r]
             THEN /\ CommitSession(r, s)
                  /\ raised' = [raised EXCEPT ![r] = msg]
             ELSE /\ raised' = [raised EXCEPT ![r] = "PendingRollbackError"]
                  /\ UNCHANGED <<rows, hist>>
  /\ pc' = [pc EXCEPT ![r] = "raised"]
  /\ UNCHANGED <<facts, stage, xid, loc, calls, failedAt, txFailed, reply, eng>>

\* lines 140-148, the except clause: status failed, current_step and errors
\* from the exception, commit, re-raise.  progress_percentage is not assigned.
\* The clause does not roll back: when a commit of the try block has raised,
\* the database session is left invalidated, this commit raises as well and
\* its exception replaces the original one.
Handler(r) ==
  /\ pc[r] = "handler"
  /\ LET msg == Message(failedAt[r])
         s == [sess[r] EXCEPT !.status = "failed",
                              !.current_step = "Error: " \o msg,
                              !.errors = << [error |-> msg, timestamp |-> "utcnow"] >>]
     IN /\ sess' = [sess EXCEPT ![r] = s]
        /\ IF ~txFailed[r]
             THEN /\ CommitSession(r, s)
                  /\ raised' = [raised EXCEPT ![r] = msg]
             ELSE /\ raised' = [raised EXCEPT ![r] = "PendingRollbackError"]
                  /\ UNCHANGED <<rows, hist>>
  /\ pc' = [pc EXCEPT ![r] = "raised"]
  /\ UNCHANGED <<facts, stage, xid, loc, calls, failedAt, txFailed, reply, eng>>

\* the caller cancels the task while it awaits an adapter: CancelledError is
\* not an Exception, so `except Exception` (line 140) does not catch it
Cancel(r) ==
  /\ pc[r] = "call"
  /\ pc' = [pc EXCEPT ![r] = "cancelled"]
  /\ raised' = [raised EXCEPT ![r] = "CancelledError"]
  /\ UNCHANGED <<rows, facts, hist, stage, xid, loc, sess, calls, failedAt, txFailed, reply, eng>>

\* ------------------------------------------------------------- queries
\* get_extraction_status, lines 392-410
GetExtractionStatus(id) ==
  IF rows[id].status = "absent"
    THEN [kind |-> "NotFound", session |-> NoSession, found |-> NoFacts]
    ELSE [kind |-> "status", session |-> rows[id], found |-> NoFacts]

\* GetExtractionResults as it would be without the test of the status
GetExtractionResults_AnyStatus(id) ==
  IF rows[id].status = "absent"
    THEN [kind |-> "NotFound", session |-> NoSession, found |-> NoFacts]
  ELSE [kind |-> "result", session |-> rows[id],
        found |-> [k \in Stages |-> IF facts[id][k] > 0 THEN 1 ELSE 0]]

\* get_extraction_results, lines 412-507: each fact is looked up with
\* .first(), so a section is present when at least one record exists
GetExtractionResults(id) ==
  IF rows[id].status = "absent"
    THEN [kind |-> "NotFound", session |-> NoSession, found |-> NoFacts]
  ELSE IF rows[id].status # "completed"
    THEN [kind |-> "NotReady", session |-> NoSession, found |-> NoFacts]
  ELSE [kind |-> "result", session |-> rows[id],
        found |-> [k \in Stages |-> IF facts[id][k] > 0 THEN 1 ELSE 0]]

\* a client request for the status of id, served from the committed store
QueryStatus(id) ==
  /\ reply' = [op |-> "get_status", id |-> id] @@ GetExtractionStatus(id)
  /\ UNCHANGED <<runVars, eng>>

\* a client request for the results of id
QueryResults(id) ==
  /\ reply' = [op |-> "get_results", id |-> id] @@ GetExtractionResults(id)
  /\ UNCHANGED <<runVars, eng>>

RunStep(r) ==
  \/ \E id \in ExtractionIds, c \in Coords : Create(r, id, c)
  \/ Begin(r)
  \/ AdapterReturn(r)
  \/ SaveFact(r)
  \/ WriteCheckpoint(r)
  \/ Compute(r)
  \/ Finalize(r)
  \/ Handler(r)
  \/ Cancel(r)

Next == \E r \in Runs : RunStep(r)

Spec == Init /\ [][Next]_vars

\* ------------------------------------------------- the extract-async route
\* extract_impact_data_async (routes, lines 74-129): a fresh uuid4 is drawn,
\* async_extraction_worker is added to the background tasks with it, and the
\* id is returned to the client; nothing is written to the store
Enqueue(r, id, c) ==
  /\ pc[r] = "idle"
  /\ \A q \in Runs : xid[q] # id
  /\ pc' = [pc EXCEPT ![r] = "queued"]
  /\ xid' = [xid EXCEPT ![r] = id]
  /\ loc' = [loc EXCEPT ![r] = c]
  /\ UNCHANGED <<rows, facts, hist, stage, sess, calls, failedAt, txFailed, raised,
                 reply, eng>>

\* async_extraction_worker (routes, lines 336-375) starts after the response
\* has been sent and calls extract_comprehensive_data with the id, which
\* inserts and commits the session row (lines 56-63)
WorkerStart(r) ==
  /\ pc[r] = "queued"
  /\ IF rows[xid[r]].status # "absent"
       THEN /\ pc' = [pc EXCEPT ![r] = "raised"]
            /\ raised' = [raised EXCEPT ![r] = "IntegrityError"]
            /\ txFailed' = [txFailed EXCEPT ![r] = TRUE]
            /\ UNCHANGED <<rows, hist, sess>>
       ELSE /\ pc' = [pc EXCEPT ![r] = "created"]
            /\ sess' = [sess EXCEPT ![r] = NewSession(loc[r])]
            /\ rows' = [rows EXCEPT ![xid[r]] = NewSession(loc[r])]
            /\ hist' = [hist EXCEPT ![xid[r]] = Append(@, <<"pending", 0, "Initializing">>)]
            /\ UNCHANGED <<raised, txFailed>>
  /\ UNCHANGED <<facts, stage, xid, loc, calls, failedAt, reply, eng>>

\* the asynchronous route, its background workers, and clients that ask
\* for the status of an id at any moment
AsyncNext ==
  \/ \E r \in Runs, id \in ExtractionIds, c \in Coords : Enqueue(r, id, c)
  \/ \E r \in Runs : WorkerStart(r)
  \/ \E r \in Runs : Begin(r)
  \/ \E r \in Runs : AdapterReturn(r)
  \/ \E r \in Runs : SaveFact(r)
  \/ \E r \in Runs : WriteCheckpoint(r)
  \/ \E r \in Runs : Compute(r)
  \/ \E r \in Runs : Finalize(r)
  \/ \E r \in Runs : Handler(r)
  \/ \E r \in Runs : Cancel(r)
  \/ \E id \in ExtractionIds : QueryStatus(id)

AsyncSpec == Init /\ [][AsyncNext]_vars

\* the runs together with clients that query the store at any moment
QueryNext ==
  \/ \E r \in Runs : RunStep(r)
  \/ \E id \in ExtractionIds : QueryStatus(id)
  \/ \E id \in ExtractionIds : QueryResults(id)

QuerySpec == Init /\ [][QueryNext]_vars

\* ------------------------------------------------------- the impact engine
\* ImpactCalculator in fixed point.  Lengths are whole metres, pressures
\* hundredths of a pascal, wave heights millimetres.  The kinetic energy enters
\* by its cube root (in metres: the unit of kinetic_energy ** (1.0/3.0) in
\* lines 214, 241 and 268) and the crater by its diameter in metres; both are
\* results of lines 144-151 and 173-181 and take every positive value as the
\* diameter, velocity and densities range over the positive numbers.
MaxClock == 2

MaxCalls == 2

\* kinetic_energy ** (1.0/3.0) for a stony impactor (3000 kg/m3) at 17 km/s
\* of diameter 1 m, 2.5 m and 5 m
CubeRootEnergies == {6100, 15250, 30500}

\* crater diameters in metres (the impactors of 10 m and of 100 m of the spec's
\* scenario give 124 m and 5681 m)
CraterDiameters == {124, 5681}

WaterDepths == {-50, 0, 50, 4000}

EngineInputs ==
  [ke_cbrt : CubeRootEnergies, crater_m : CraterDiameters, is_land : BOOLEAN,
   water_depth_m : WaterDepths]

\* overpressure_levels = [1.0, 2.5, 5.0, 15.0] psi, in tenths of a psi
PsiLevels == {10, 25, 50, 150}

\* target_pressure_pa = target_psi * 6894.76, in thousandths of a pascal
TargetPressure(psi10) == psi10 * 689476

InitialGuess == 1000

MaxIterations == 100

\* the whole metres of a step a / b, b > 0: a step shorter than the tolerance
\* of one metre has none, whichever its sign
WholeMetres(a, b) == IF a >= 0 THEN a \div b ELSE -((-a) \div b)

\* ke_cbrt / r (in thousandths) above which the loop is followed in the
\* steep form below
SteepRatio == 46000

\* the step from a radius r > 0 at which ke_cbrt / r, whose whole part is
\* ratio, is above SteepRatio: (pressure - target) / -dP_dr with the
\* numerator and the denominator both divided by ratio^3, in thousandths
SteepStep(target, r, ratio) ==
  LET u == 1000 \div ratio
      above == 7000 + 3 * u + (85 * u * u) \div 100000
                 - ((target \div ratio) \div ratio) \div ratio
      below == 21000 + 6 * u + (85 * u * u) \div 100000
  IN WholeMetres(r * above, below)

\* the body of the Newton loop, lines 238-260, from radius r with n
\* iterations left.  With q = ke_cbrt / r (in thousandths) the pressure is
\* 0.85 q + 3 q^2 + 7 q^3 and dP_dr is -(0.85 q + 6 q^2 + 21 q^3) / r.
\* At r = 0 the divisions raise ZeroDivisionError.  At r < 0 the pressure is
\* below the target and dP_dr is negative, so each iterate lies below the one
\* before by more than 0.3 |r|: within 3 m of zero the step is shorter than
\* the tolerance and the loop breaks, below that the iterates run out of the
\* float range and r ** 4 raises OverflowError; so does a step from a point
\* where dP_dr has vanished.  An iterate is counted in whole metres towards
\* the side it lies on: only a step that ends on zero itself gives r = 0.
\* Close to zero on the positive side the pressure is far above the target
\* and the step is about r / 3 outwards.
RECURSIVE NewtonLoop(_, _, _, _)
NewtonLoop(ke_cbrt, target, r, n) ==
  IF n = 0 THEN [kind |-> "value", r |-> r]
  ELSE IF r = 0 THEN [kind |-> "ZeroDivisionError", r |-> r]
  ELSE IF r < 0
    THEN IF r >= -3 THEN [kind |-> "value", r |-> r]
                    ELSE [kind |-> "OverflowError", r |-> r]
  ELSE IF (1000 * ke_cbrt) \div r > SteepRatio
    THEN LET r_new == r + SteepStep(target, r, ke_cbrt \div r)
         IN IF r_new = r THEN [kind |-> "value", r |-> r]
            ELSE NewtonLoop(ke_cbrt, target, r_new, n - 1)
  ELSE LET q == (1000 * ke_cbrt) \div r
           q2 == (q * q) \div 1000
           q3 == (q2 \div 1000) * q + ((q2 % 1000) * q) \div 1000
           pressure == (85 * q) \div 100 + 3 * q2 + 7 * q3
           slope == ((85 * q) \div 100 + 6 * q2 + 21 * q3) \div r
       IN IF slope = 0 THEN [kind |-> "OverflowError", r |-> r]
          ELSE LET whole == r + WholeMetres(pressure - target, slope)
                   r_new == IF whole <= 0 /\ (target - pressure) % slope # 0
                              THEN whole - 1 ELSE whole
               IN IF r_new = r THEN [kind |-> "value", r |-> r]
                  ELSE NewtonLoop(ke_cbrt, target, r_new, n - 1)

\* _solve_overpressure_radius, lines 226-268: the radius in metres; any
\* exception of the loop is caught and (kinetic_energy ** (1/3)) / 1000 km,
\* that is ke_cbrt metres, is returned instead
SolveOverpressureRadius(ke_cbrt, psi10) ==
  LET out == NewtonLoop(ke_cbrt, TargetPressure(psi10), InitialGuess, MaxIterations)
  IN IF out.kind = "value" THEN out.r ELSE ke_cbrt

\* _calculate_airblast_effects, lines 200-224 (radii in metres)
CalculateAirblastEffects(ke_cbrt) ==
  [blast_radii |-> [p \in PsiLevels |-> SolveOverpressureRadius(ke_cbrt, p)],
   fireball_radius |-> ke_cbrt]

\* the largest k in lo..hi with k * k <= n
RECURSIVE SqrtBetween(_, _, _)
SqrtBetween(n, lo, hi) ==
  IF lo >= hi THEN lo
  ELSE LET mid == (lo + hi + 1) \div 2
       IN IF mid * mid <= n THEN SqrtBetween(n, mid, hi)
                            ELSE SqrtBetween(n, lo, mid - 1)

\* 0.15 * ((D_km ** 4) / ((depth_m / 1000) ** 2 * distance ** 2)) ** (1/4) in
\* millimetres: the fourth root of the square of D_km^2 / (depth_km * distance)
WaveHeight(crater_m, depth_m, distance) ==
  SqrtBetween((45 * crater_m * crater_m) \div (2 * depth_m * distance), 0, 46340)

Distances == {10, 50, 100, 500, 1000}

\* the floor of line 351, max(0.1, wave_height), in millimetres
MinWave == 100

NoTsunami ==
  [present |-> FALSE, initial_wave_height |-> 0, wave_heights |-> [d \in Distances |-> 0]]

\* _calculate_tsunami_effects, lines 321-362
CalculateTsunamiEffects(crater_m, water_depth_m) ==
  IF water_depth_m <= 0 THEN NoTsunami
  ELSE [present |-> TRUE,
        initial_wave_height |-> WaveHeight(crater_m, water_depth_m, 1),
        wave_heights |->
          [d \in Distances |->
             LET h == WaveHeight(crater_m, water_depth_m, d)
             IN IF h < MinWave THEN MinWave ELSE h]]

\* calculate_impact_effects, lines 74-129, called with input i when the clock
\* (datetime.utcnow()) shows now.  The energy, crater, earthquake and thermal
\* sections are functions of the input alone and are left out.
CalculateImpactEffects(i, now) ==
  [airblast |-> CalculateAirblastEffects(i.ke_cbrt),
   tsunami |-> IF ~i.is_land THEN CalculateTsunamiEffects(i.crater_m, i.water_depth_m)
                             ELSE NoTsunami,
   impact_location |-> [is_land |-> i.is_land, water_depth_m |-> i.water_depth_m],
   calculated_at |-> now,
   calculation_method |-> "simplified_scaling_laws"]

\* _calculate_impact_effects of the service, lines 367-381: the
\* ImpactCalculation record built from the engine's result
ImpactCalculationRecord(impact_effects) ==
  [fireball_radius_km |-> impact_effects.airblast.fireball_radius,
   tsunami_wave_height_meters |-> impact_effects.tsunami.initial_wave_height,
   calculation_method |-> "simplified_scaling_laws",
   calculation_version |-> "1.0",
   calculation_metadata |-> impact_effects]

\* get_extraction_results, lines 495-506: the impact_calculation section made
\* from the stored record
ImpactCalculationSection(impact_calculation) ==
  [fireball_radius_km |-> impact_calculation.fireball_radius_km,
   tsunami_wave_height_meters |-> impact_calculation.tsunami_wave_height_meters,
   calculation_metadata |-> impact_calculation.calculation_metadata]

\* the runs are not part of the engine's specifications: nothing is started
RunsIdle ==
  /\ rows = [i \in ExtractionIds |-> NoSession]
  /\ facts = [i \in ExtractionIds |-> NoFacts]
  /\ hist = [i \in ExtractionIds |-> <<>>]
  /\ pc = [r \in Runs |-> "idle"]
  /\ stage = [r \in Runs |-> 0]
  /\ xid = [r \in Runs |-> "none"]
  /\ loc = [r \in Runs |-> <<0, 0>>]
  /\ sess = [r \in Runs |-> NoSession]
  /\ calls = [r \in Runs |-> <<>>]
  /\ failedAt = [r \in Runs |-> NoFailure]
  /\ txFailed = [r \in Runs |-> FALSE]
  /\ raised = [r \in Runs |-> "none"]
  /\ reply = NoReply

EngineInit ==
  /\ RunsIdle
  /\ eng \in {[input |-> i, now |-> 0, results |-> <<>>] : i \in EngineInputs}

\* time passes between two calls
EngineTick ==
  /\ eng.now < MaxClock
  /\ eng' = [eng EXCEPT !.now = @ + 1]
  /\ UNCHANGED <<runVars, reply>>

\* the engine is called with the input
EngineCall ==
  /\ Len(eng.results) < MaxCalls
  /\ eng' = [eng EXCEPT !.results = Append(@, CalculateImpactEffects(eng.input, eng.now))]
  /\ UNCHANGED <<runVars, reply>>

EngineNext == EngineTick \/ EngineCall

EngineSpec == EngineInit /\ [][EngineNext]_vars

\* --------------------------------------- the engine over the float range
\* A float of the engine is followed by its magnitude only: a positive finite
\* number by its decimal logarithm in hundredths (e = 200 is 100.0), and 0.0,
\* inf and nan by their kind.  An exception raised by an operation takes the
\* place of its value and passes through the operations that follow, so the
\* outcome of a chain is the first exception of the chain.

\* the largest double is 1.797e308, the smallest positive one 4.9e-324
MaxExp10 == 30825

MinExp10 == -32331

Zero == [k |-> "zero", e |-> 0]

Inf == [k |-> "inf", e |-> 0]

NaN == [k |-> "nan", e |-> 0]

Exceptions == {"OverflowError", "ZeroDivisionError", "ValueError"}

Raise(name) == [k |-> name, e |-> 0]

IsRaised(x) == x.k \in Exceptions

\* the float nearest to 10 ^ (e / 100): products and quotients beyond the
\* range round to inf or to 0.0 without an exception
Float(e) ==
  IF e > MaxExp10 THEN Inf
  ELSE IF e < MinExp10 THEN Zero
  ELSE [k |-> "num", e |-> e]

\* x * c for the literal c = 10 ^ (c100 / 100)
Times(x, c100) == IF x.k = "num" THEN Float(x.e + c100) ELSE x

\* x * y
FMul(x, y) ==
  IF IsRaised(x) THEN x
  ELSE IF IsRaised(y) THEN y
  ELSE IF x.k = "num" /\ y.k = "num" THEN Float(x.e + y.e)
  ELSE IF "nan" \in {x.k, y.k} \/ {x.k, y.k} = {"zero", "inf"} THEN NaN
  ELSE IF x.k # "num" THEN x
  ELSE y

\* x / y: a zero divisor raises ZeroDivisionError
FDiv(x, y) ==
  IF IsRaised(x) THEN x
  ELSE IF IsRaised(y) THEN y
  ELSE IF y.k = "zero" THEN Raise("ZeroDivisionError")
  ELSE IF x.k = "num" /\ y.k = "num" THEN Float(x.e - y.e)
  ELSE IF "nan" \in {x.k, y.k} \/ (x.k = "inf" /\ y.k = "inf") THEN NaN
  ELSE IF y.k = "inf" THEN Zero
  ELSE x

\* x ** n for a whole n >= 2: a result beyond the range raises OverflowError,
\* one below it is 0.0
FPow(x, n) ==
  IF x.k # "num" THEN x
  ELSE IF x.e * n > MaxExp10 THEN Raise("OverflowError")
  ELSE Float(x.e * n)

\* x ** (a / b) for an exponent below one: never out of range
FRoot(x, a, b) == IF x.k = "num" THEN [k |-> "num", e |-> (x.e * a) \div b] ELSE x

\* math.log10(x): ValueError at 0.0; the magnitude of the logarithm is not
\* followed
FLog10(x) ==
  IF IsRaised(x) THEN x
  ELSE IF x.k = "zero" THEN Raise("ValueError")
  ELSE IF x.k = "num" THEN Float(0)
  ELSE x

\* the first exception among the values, in their order, or "result"
RECURSIVE FirstRaised(_)
FirstRaised(values) ==
  IF values = <<>> THEN [k |-> "result", e |-> 0]
  ELSE IF IsRaised(Head(values)) THEN Head(values)
  ELSE FirstRaised(Tail(values))

\* _calculate_kinetic_energy, lines 135-157:
\* 0.5 * (density * (4/3 * pi * (diameter / 2) ** 3)) * velocity ** 2
FloatKineticEnergy(diameter_m, velocity_ms, density_kg_m3) ==
  LET radius_m == Times(diameter_m, -30)
      volume_m3 == Times(FPow(radius_m, 3), 62)
      mass_kg == FMul(density_kg_m3, volume_m3)
  IN FMul(Times(mass_kg, -30), FPow(velocity_ms, 2))

\* _calculate_crater_dimensions, lines 159-198: crater_diameter_km
FloatCraterDiameter(diameter_m, asteroid_density, target_density, kinetic_energy) ==
  LET density_ratio == FDiv(asteroid_density, target_density)
      energy_ratio == FDiv(kinetic_energy, Times(target_density, 640))
      crater_diameter_m ==
        FMul(FMul(Times(FRoot(density_ratio, 1, 3), 6), FRoot(energy_ratio, 22, 100)),
             diameter_m)
  IN Times(crater_diameter_m, -300)

\* _calculate_earthquake_effects, lines 270-299
FloatEarthquake(kinetic_energy) == FLog10(kinetic_energy)

\* the decimal logarithms, in hundredths, of distance ** 2 for the distances
\* 10, 50, 100, 500 and 1000 km
DistanceSquares == <<200, 340, 400, 540, 600>>

\* _calculate_tsunami_effects, lines 321-362: None at a depth of 0.0, else the
\* initial wave height and then the wave height at each distance
FloatTsunami(crater_diameter_km, water_depth_m) ==
  IF water_depth_m.k = "zero" THEN [k |-> "result", e |-> 0]
  ELSE LET crater4 == FPow(crater_diameter_km, 4)
           depth2 == FPow(Times(water_depth_m, -300), 2)
           initial == FRoot(FDiv(crater4, depth2), 1, 4)
           wave == [n \in DOMAIN DistanceSquares |->
                      FRoot(FDiv(crater4, Times(depth2, DistanceSquares[n])), 1, 4)]
       IN FirstRaised(<<initial>> \o wave)

\* calculate_impact_effects, lines 73-133: the sections in the order they are
\* computed; an exception of a section is logged and raised again.  The
\* airblast section raises nothing of its own: whatever the solver raises is
\* caught at lines 265-268, and the fireball radius is a cube root.
FloatImpactEffects(i) ==
  LET impact_energy == FloatKineticEnergy(i.diameter_m, i.velocity_ms, i.density_kg_m3)
      crater_km == FloatCraterDiameter(i.diameter_m, i.density_kg_m3,
                                       i.target_density_kg_m3, impact_energy)
      airblast == FRoot(impact_energy, 1, 3)
      earthquake == FloatEarthquake(impact_energy)
      thermal == FRoot(impact_energy, 1, 4)
      tsunami == IF i.is_land THEN [k |-> "result", e |-> 0]
                 ELSE FloatTsunami(crater_km, i.water_depth_m)
  IN FirstRaised(<<impact_energy, crater_km, airblast, earthquake, thermal, tsunami>>)

\* positive inputs: diameters from 1e-120 m to 1e110 m, velocities from 1 m/s
\* to 1e155 m/s, the densities 3000 and 2500 kg/m3, depths 0, 1e-170 m and
\* 4000 m
DiameterExps == {-12000, 0, 200, 11000}

VelocityExps == {0, 423, 15500}

DensityExps == {348}

TargetDensityExps == {340}

DepthExps == {-17000, 360}

FloatInputs ==
  [diameter_m : {Float(e) : e \in DiameterExps},
   velocity_ms : {Float(e) : e \in VelocityExps},
   density_kg_m3 : {Float(e) : e \in DensityExps},
   target_density_kg_m3 : {Float(e) : e \in TargetDensityExps},
   is_land : BOOLEAN,
   water_depth_m : {Zero} \cup {Float(e) : e \in DepthExps}]

FloatInit ==
  /\ RunsIdle
  /\ eng \in {[input |-> i, now |-> 0, results |-> <<>>] : i \in FloatInputs}

\* the engine is called with the input; what it returns or raises is kept
FloatCall ==
  /\ Len(eng.results) < MaxCalls
  /\ eng' = [eng EXCEPT !.results = Append(@, FloatImpactEffects(eng.input))]
  /\ UNCHANGED <<runVars, reply>>

FloatSpec == FloatInit /\ [][FloatCall]_vars

\* ------------------------------------- the kinetic energy in rounded floats
\* A positive binary float is m * 2 ^ e with a mantissa m of Precision bits,
\* 2 ^ (Precision - 1) <= m < 2 ^ Precision.  The exponent is left unbounded
\* here: the ends of the range are followed in the section above.
Precision == 4

Mantissas == (2 ^ (Precision - 1)) .. (2 ^ Precision - 1)

\* the number of low bits of n > 0 that do not fit the mantissa
RECURSIVE ExcessBits(_)
ExcessBits(n) == IF n < 2 ^ Precision THEN 0 ELSE 1 + ExcessBits(n \div 2)

\* n * 2 ^ e cut down to the float just below or equal
RoundDown(n, e) ==
  LET k == ExcessBits(n) IN [m |-> n \div (2 ^ k), e |-> e + k]

\* the float just above x
NextUp(x) ==
  IF x.m + 1 = 2 ^ Precision THEN [m |-> 2 ^ (Precision - 1), e |-> x.e + 1]
  ELSE [m |-> x.m + 1, e |-> x.e]

\* is n * 2 ^ e a float
Exact(n) == n % (2 ^ ExcessBits(n)) = 0

\* n * 2 ^ e rounded to the nearest float, ties to the even mantissa: the
\* rounding of the float multiplication
RoundNearest(n, e) ==
  LET k == ExcessBits(n)
      rest == n % (2 ^ k)
      down == RoundDown(n, e)
  IN IF 2 * rest < 2 ^ k THEN down
     ELSE IF 2 * rest > 2 ^ k THEN NextUp(down)
     ELSE IF down.m % 2 = 0 THEN down
     ELSE NextUp(down)

\* x * y
BMul(x, y) == RoundNearest(x.m * y.m, x.e + y.e)

\* x * 2 ^ k and x / 2 ^ k are exact
Scale(x, k) == [m |-> x.m, e |-> x.e + k]

\* x ** n: Python hands the power to pow() of the C library, which is not
\* correctly rounded: an inexact power comes back as one of the two floats
\* next to it, which of them is up to the library
BPow(x, n) ==
  LET down == RoundDown(x.m ^ n, n * x.e)
  IN IF Exact(x.m ^ n) THEN {down} ELSE {down, NextUp(down)}

\* the literal 4.0 / 3.0 and math.pi at this precision (1365 / 1024 and
\* 3217 / 1024 rounded: 11/8 and 13/4 with four bits)
FourThirds == RoundNearest(1365, -10)

Pi == RoundNearest(3217, -10)

\* Volumes as it would be with the square of the radius
Volumes_Square(radius_m) == { BMul(BMul(FourThirds, Pi), p) : p \in BPow(radius_m, 2) }

\* volume_m3 = (4.0 / 3.0) * math.pi * (radius_m ** 3), line 145
Volumes(radius_m) == { BMul(BMul(FourThirds, Pi), p) : p \in BPow(radius_m, 3) }

\* _calculate_kinetic_energy, lines 135-157: the values the call can return
KineticEnergies(diameter_m, velocity_ms, density_kg_m3) ==
  LET radius_m == Scale(diameter_m, -1)
  IN { BMul(Scale(BMul(density_kg_m3, volume_m3), -1), square) :
         volume_m3 \in Volumes(radius_m), square \in BPow(velocity_ms, 2) }

\* the arguments of the three calls that are compared: the input itself, the
\* input with half the diameter, the input with twice the velocity
Variants == {"same", "half_diameter", "double_velocity"}

ArgumentsOf(i, variant) ==
  [diameter_m |-> IF variant = "half_diameter" THEN Scale(i.diameter_m, -1) ELSE i.diameter_m,
   velocity_ms |-> IF variant = "double_velocity" THEN Scale(i.velocity_ms, 1) ELSE i.velocity_ms,
   density_kg_m3 |-> i.density_kg_m3]

KineticInputs ==
  [diameter_m : {[m |-> m, e |-> 0] : m \in Mantissas},
   velocity_ms : {[m |-> m, e |-> 3] : m \in Mantissas},
   density_kg_m3 : {[m |-> m, e |-> 8] : m \in {k \in Mantissas : k % 3 = 2}}]

KineticInit ==
  /\ RunsIdle
  /\ eng \in {[input |-> i, now |-> 0, results |-> <<>>] : i \in KineticInputs}

\* _calculate_kinetic_energy is called with one of the three argument lists,
\* each at most once
KineticCall(variant) ==
  /\ Len(eng.results) < MaxCalls
  /\ \A n \in DOMAIN eng.results : eng.results[n].variant # variant
  /\ LET a == ArgumentsOf(eng.input, variant)
     IN \E ke \in KineticEnergies(a.diameter_m, a.velocity_ms, a.density_kg_m3) :
          eng' = [eng EXCEPT !.results = Append(@, [variant |-> variant, ke |-> ke])]
  /\ UNCHANGED <<runVars, reply>>

KineticNext == \E variant \in Variants : KineticCall(variant)

KineticSpec == KineticInit /\ [][KineticNext]_vars

\* ------------------------------------------- the Newton solve far from the root
\* For a very large energy the radii leave the range of the integers, and the
\* loop of lines 238-260 is followed by the decimal logarithm of r in
\* thousandths.  While q = ke_cbrt / r is above 1000 the cubic terms carry the
\* pressure and dP_dr (7 q^3 against 21 q^3 / r, the target below a hundred
\* thousandth of them), so r_new = r + r / 3: the step is far above the
\* tolerance and every iteration multiplies r by 4/3.

\* log10(4/3)
LogStep == 125

\* log10 of the q below which the iteration is no longer followed
NearRatio == 3000

\* log10 of the initial guess of 1000 m
LogInitialGuess == 3000

\* ke_cbrt = 10 ^ k metres
CubeRootDecades == 5 .. 40

\* the loop from log10(r) = lr with n iterations left: it runs out of
\* iterations ("exhausted", r being the last iterate) or comes near the root
\* ("near")
RECURSIVE FarLoop(_, _, _)
FarLoop(lc, lr, n) ==
  IF n = 0 THEN [kind |-> "exhausted", lr |-> lr]
  ELSE IF lc - lr < NearRatio THEN [kind |-> "near", lr |-> lr]
  ELSE FarLoop(lc, lr + LogStep, n - 1)

\* _solve_overpressure_radius, lines 226-268, for ke_cbrt = 10 ^ k: nothing
\* raises in the loop, so `return r / 1000.0` of line 263 is reached with the
\* last r; the fallback of line 268 would be ke_cbrt.  Logarithms of metres.
FarSolve(k, psi10) ==
  LET out == FarLoop(1000 * k, LogInitialGuess, MaxIterations)
  IN [psi |-> psi10, loop |-> out.kind, radius |-> out.lr, fallback |-> 1000 * k]

SolverInit ==
  /\ RunsIdle
  /\ eng \in {[input |-> k, now |-> 0, results |-> <<>>] : k \in CubeRootDecades}

\* the solver is called for one overpressure level
SolverCall(psi10) ==
  /\ Len(eng.results) < MaxCalls
  /\ eng' = [eng EXCEPT !.results = Append(@, FarSolve(eng.input, psi10))]
  /\ UNCHANGED <<runVars, reply>>

SolverNext == \E psi10 \in PsiLevels : SolverCall(psi10)

SolverSpec == SolverInit /\ [][SolverNext]_vars

\* ------------------------------------------ the solver near its first guess
\* kinetic_energy ** (1.0/3.0) in metres of impactors of about a metre to a
\* few metres: energies far too small for any overpressure at 1000 m (100,
\* 1000, 3000), energies at which the tangent at the first guess r = 1000 m
\* meets the target within a few metres of r = 0 for 1 psi (6153 to 6161),
\* 2.5 psi (8395, 8398), 5 psi (10606, 10608) and 15 psi (15338 to 15348),
\* and one at which all four levels converge (30500)
NearCubeRoots ==
  {100, 1000, 3000, 6153, 6157, 6161, 8395, 8398, 10606, 10608, 15338, 15344,
   15348, 30500}

\* _calculate_damage_zones, lines 364-403: the zone that takes the radius
\* of an overpressure level as it is
DamageZone ==
  [p \in PsiLevels |->
     IF p = 10 THEN "window_shatter"
     ELSE IF p = 25 THEN "residential_damage"
     ELSE IF p = 50 THEN "building_destruction"
     ELSE "concrete_damage"]

\* one pass of the loop of lines 207-211 and its zone (radii in metres)
BlastRadius(ke_cbrt, psi10) ==
  LET radius == SolveOverpressureRadius(ke_cbrt, psi10)
  IN [psi |-> psi10, blast_radius |-> radius,
      zone |-> DamageZone[psi10], zone_radius |-> radius]

BlastInit ==
  /\ RunsIdle
  /\ eng \in {[input |-> c, now |-> 0, results |-> <<>>] : c \in NearCubeRoots}

\* the radius of one overpressure level is solved and its zone is filled in
BlastCall(psi10) ==
  /\ Len(eng.results) < MaxCalls
  /\ eng' = [eng EXCEPT !.results = Append(@, BlastRadius(eng.input, psi10))]
  /\ UNCHANGED <<runVars, reply>>

BlastNext == \E psi10 \in PsiLevels : BlastCall(psi10)

BlastSpec == BlastInit /\ [][BlastNext]_vars

\* --------------------------------------------- the asteroid adapter's parser
\* A field of the catalog's JSON response: absent, a string (empty, not a
\* number, or the text of a number) or a JSON number.  Values are whole km
\* and km/s.
FieldValues == {-1, 0, 2}

NoField == [json |-> "absent", empty |-> TRUE, parses |-> FALSE, value |-> 0]

EmptyString == [json |-> "string", empty |-> TRUE, parses |-> FALSE, value |-> 0]

NotANumber == [json |-> "string", empty |-> FALSE, parses |-> FALSE, value |-> 0]

Fields ==
  {NoField, EmptyString, NotANumber}
    \cup {[json |-> "string", empty |-> FALSE, parses |-> TRUE, value |-> v] : v \in FieldValues}
    \cup {[json |-> "number", empty |-> FALSE, parses |-> TRUE, value |-> v] : v \in FieldValues}

\* `if diameter_str:`: None, "" and the number 0 are false, every other
\* string is true, "0" included
Truthy(field) ==
  CASE field.json = "absent" -> FALSE
    [] field.json = "string" -> ~field.empty
    [] field.json = "number" -> field.value # 0

None == [none |-> TRUE, value |-> 0]

Some(v) == [none |-> FALSE, value |-> v]

\* float(field) under `except (ValueError, TypeError)`: None when the field is
\* false or is not the text of a number
ParsedFloat(field) ==
  IF Truthy(field) /\ field.parses THEN Some(field.value) ELSE None

\* _parse_response, lines 164-262: the record returned, or the exception.
\* present tells whether the object, phys_par and ca_data sections are there.
ParseResponse(data) ==
  LET diameter_km == ParsedFloat(data.diameter)
      diameter_m == IF ~diameter_km.none /\ diameter_km.value # 0
                      THEN Some(diameter_km.value * 1000) ELSE None
      velocity_km_s == ParsedFloat(data.v_rel)
      velocity_ms == IF velocity_km_s.none THEN None
                     ELSE Some(velocity_km_s.value * 1000)
  IN IF ~data.present
       THEN [kind |-> "raise", diameter_m |-> 0, velocity_ms |-> 0]
     ELSE IF diameter_m.none \/ velocity_ms.none
       THEN [kind |-> "raise", diameter_m |-> 0, velocity_ms |-> 0]
     ELSE [kind |-> "record", diameter_m |-> diameter_m.value,
           velocity_ms |-> velocity_ms.value]

Responses == [present : BOOLEAN, diameter : Fields, v_rel : Fields]

ParserInit ==
  /\ RunsIdle
  /\ eng \in {[input |-> d, now |-> 0, results |-> <<>>] : d \in Responses}

\* the adapter parses the response it has received
ParserCall ==
  /\ Len(eng.results) < MaxCalls
  /\ eng' = [eng EXCEPT !.results = Append(@, ParseResponse(eng.input))]
  /\ UNCHANGED <<runVars, reply>>

ParserSpec == ParserInit /\ [][ParserCall]_vars

\* ------------------------------------------------- the geology adapter
\* str.lower(), for the letters of the Latin alphabet
UpperCase == <<"A", "B", "C", "D", "E", "F", "G", "H", "I", "J", "K", "L", "M", "N", "O", "P", "Q", "R", "S", "T", "U", "V", "W", "X", "Y", "Z">>

LowerCase == <<"a", "b", "c", "d", "e", "f", "g", "h", "i", "j", "k", "l", "m", "n", "o", "p", "q", "r", "s", "t", "u", "v", "w", "x", "y", "z">>

Lower(text) ==
  [i \in 1..Len(text) |->
     IF \E j \in 1..Len(UpperCase) : UpperCase[j] = text[i]
       THEN LowerCase[CHOOSE j \in 1..Len(UpperCase) : UpperCase[j] = text[i]]
       ELSE text[i]]

\* word in text, for strings
Contains(word, text) ==
  \E i \in 0..(Len(text) - Len(word)) : SubSeq(text, i + 1, i + Len(word)) = word

\* DENSITY_MAPPING in the order of the dictionary, which is the order in
\* which both loops try its keys; letters spells rock_type
DENSITY_MAPPING ==
  << [rock_type |-> "granite", letters |-> <<"g", "r", "a", "n", "i", "t", "e">>, density |-> 2750],
     [rock_type |-> "basalt", letters |-> <<"b", "a", "s", "a", "l", "t">>, density |-> 2850],
     [rock_type |-> "gabbro", letters |-> <<"g", "a", "b", "b", "r", "o">>, density |-> 2950],
     [rock_type |-> "diorite", letters |-> <<"d", "i", "o", "r", "i", "t", "e">>, density |-> 2800],
     [rock_type |-> "rhyolite", letters |-> <<"r", "h", "y", "o", "l", "i", "t", "e">>, density |-> 2700],
     [rock_type |-> "andesite", letters |-> <<"a", "n", "d", "e", "s", "i", "t", "e">>, density |-> 2750],
     [rock_type |-> "obsidian", letters |-> <<"o", "b", "s", "i", "d", "i", "a", "n">>, density |-> 2600],
     [rock_type |-> "pumice", letters |-> <<"p", "u", "m", "i", "c", "e">>, density |-> 1000],
     [rock_type |-> "sandstone", letters |-> <<"s", "a", "n", "d", "s", "t", "o", "n", "e">>, density |-> 2400],
     [rock_type |-> "limestone", letters |-> <<"l", "i", "m", "e", "s", "t", "o", "n", "e">>, density |-> 2700],
     [rock_type |-> "shale", letters |-> <<"s", "h", "a", "l", "e">>, density |-> 2600],
     [rock_type |-> "conglomerate", letters |-> <<"c", "o", "n", "g", "l", "o", "m", "e", "r", "a", "t", "e">>, density |-> 2500],
     [rock_type |-> "breccia", letters |-> <<"b", "r", "e", "c", "c", "i", "a">>, density |-> 2500],
     [rock_type |-> "siltstone", letters |-> <<"s", "i", "l", "t", "s", "t", "o", "n", "e">>, density |-> 2600],
     [rock_type |-> "mudstone", letters |-> <<"m", "u", "d", "s", "t", "o", "n", "e">>, density |-> 2600],
     [rock_type |-> "coal", letters |-> <<"c", "o", "a", "l">>, density |-> 1400],
     [rock_type |-> "gneiss", letters |-> <<"g", "n", "e", "i", "s", "s">>, density |-> 2750],
     [rock_type |-> "schist", letters |-> <<"s", "c", "h", "i", "s", "t">>, density |-> 2700],
     [rock_type |-> "slate", letters |-> <<"s", "l", "a", "t", "e">>, density |-> 2750],
     [rock_type |-> "marble", letters |-> <<"m", "a", "r", "b", "l", "e">>, density |-> 2700],
     [rock_type |-> "quartzite", letters |-> <<"q", "u", "a", "r", "t", "z", "i", "t", "e">>, density |-> 2650],
     [rock_type |-> "phyllite", letters |-> <<"p", "h", "y", "l", "l", "i", "t", "e">>, density |-> 2700],
     [rock_type |-> "sand", letters |-> <<"s", "a", "n", "d">>, density |-> 1600],
     [rock_type |-> "clay", letters |-> <<"c", "l", "a", "y">>, density |-> 1800],
     [rock_type |-> "silt", letters |-> <<"s", "i", "l", "t">>, density |-> 1700],
     [rock_type |-> "gravel", letters |-> <<"g", "r", "a", "v", "e", "l">>, density |-> 1900],
     [rock_type |-> "soil", letters |-> <<"s", "o", "i", "l">>, density |-> 1500],
     [rock_type |-> "loam", letters |-> <<"l", "o", "a", "m">>, density |-> 1400],
     [rock_type |-> "water", letters |-> <<"w", "a", "t", "e", "r">>, density |-> 1000],
     [rock_type |-> "ice", letters |-> <<"i", "c", "e">>, density |-> 920],
     [rock_type |-> "unknown", letters |-> <<"u", "n", "k", "n", "o", "w", "n">>, density |-> 2500],
     [rock_type |-> "mixed", letters |-> <<"m", "i", "x", "e", "d">>, density |-> 2400] >>

DensityOf(rock_type) ==
  LET i == CHOOSE j \in 1..Len(DENSITY_MAPPING) : DENSITY_MAPPING[j].rock_type = rock_type
  IN DENSITY_MAPPING[i].density

\* the first key of DENSITY_MAPPING that occurs in the text, 0 if none does
FirstRockType(text) ==
  LET hits == {i \in 1..Len(DENSITY_MAPPING) : Contains(DENSITY_MAPPING[i].letters, text)}
  IN IF hits = {} THEN 0 ELSE CHOOSE i \in hits : \A j \in hits : i <= j

IgneousWords == {<<"i", "g", "n", "e", "o", "u", "s">>, <<"v", "o", "l", "c", "a", "n", "i", "c">>, <<"p", "l", "u", "t", "o", "n", "i", "c">>}

SedimentaryWords == {<<"s", "e", "d", "i", "m", "e", "n", "t", "a", "r", "y">>, <<"s", "a", "n", "d", "s", "t", "o", "n", "e">>, <<"l", "i", "m", "e", "s", "t", "o", "n", "e">>}

MetamorphicWords == {<<"m", "e", "t", "a", "m", "o", "r", "p", "h", "i", "c">>, <<"g", "n", "e", "i", "s", "s">>, <<"s", "c", "h", "i", "s", "t">>}

UnconsolidatedWords == {<<"u", "n", "c", "o", "n", "s", "o", "l", "i", "d", "a", "t", "e", "d">>, <<"s", "a", "n", "d">>, <<"c", "l", "a", "y">>, <<"s", "o", "i", "l">>}

\* the general categories, tried in this order after the keys
GeneralCategory(text) ==
  IF \E w \in IgneousWords : Contains(w, text) THEN "granite"
  ELSE IF \E w \in SedimentaryWords : Contains(w, text) THEN "sandstone"
  ELSE IF \E w \in MetamorphicWords : Contains(w, text) THEN "gneiss"
  ELSE IF \E w \in UnconsolidatedWords : Contains(w, text) THEN "sand"
  ELSE "unknown"

ClassifyMaterialType(description) ==
  IF description = <<>> THEN "unknown"
  ELSE LET description_lower == Lower(description)
           i == FirstRockType(description_lower)
       IN IF i # 0 THEN DENSITY_MAPPING[i].rock_type
          ELSE GeneralCategory(description_lower)

MapDescriptionToDensity(description) ==
  IF description = <<>> THEN DensityOf("unknown")
  ELSE LET description_lower == Lower(description)
           i == FirstRockType(description_lower)
       IN IF i # 0 THEN DENSITY_MAPPING[i].density
          ELSE DensityOf(GeneralCategory(description_lower))

UnknownGeologicalUnit == <<"U", "n", "k", "n", "o", "w", "n", " ", "g", "e", "o", "l", "o", "g", "i", "c", "a", "l", " ", "u", "n", "i", "t">>

\* the keys of the dictionary a parser returns
ParsedKeys == {"geological_description", "material_type"}

DefaultGeologicalData ==
  [geological_description |-> UnknownGeologicalUnit, material_type |-> "unknown"]

\* the surveys and the property that carries the description in each
WFS_ENDPOINTS == [USGS |-> "ROCK_D", BGS |-> "DESCRIPTION"]

\* _parse_json_response: properties.get(description_field, default)
ParseJsonResponse(response, description_field) ==
  IF ~response.features THEN DefaultGeologicalData
  ELSE LET description == IF response.field = description_field
                            THEN response.text ELSE UnknownGeologicalUnit
       IN [geological_description |-> description,
           material_type |-> ClassifyMaterialType(description)]

\* _parse_xml_response: elem.text or default
ParseXmlResponse(response, description_field) ==
  IF ~response.features THEN DefaultGeologicalData
  ELSE LET description == IF response.field = description_field /\ response.text # <<>>
                            THEN response.text ELSE UnknownGeologicalUnit
       IN [geological_description |-> description,
           material_type |-> ClassifyMaterialType(description)]

QueryWfsService(response, description_field) ==
  IF response.content_type = "application/json"
    THEN ParseJsonResponse(response, description_field)
    ELSE ParseXmlResponse(response, description_field)

NoGeologicalData ==
  [kind |-> "raise", geological_description |-> <<>>, material_type |-> "unknown",
   density_kg_m3 |-> 0]

\* extract_geological_data: the density is mapped from the value the parsed
\* dictionary holds under "description", "" if it has no such key
ExtractGeologicalData(call) ==
  IF ~ValidLatitude(call.coords[1]) THEN NoGeologicalData
  ELSE IF ~ValidLongitude(call.coords[2]) THEN NoGeologicalData
  ELSE IF call.region \notin DOMAIN WFS_ENDPOINTS THEN NoGeologicalData
  ELSE LET geological_data == QueryWfsService(call.response, WFS_ENDPOINTS[call.region])
           density == MapDescriptionToDensity(
                        IF "description" \in ParsedKeys
                          THEN geological_data.geological_description ELSE <<>>)
       IN [kind |-> "record",
           geological_description |-> geological_data.geological_description,
           material_type |-> geological_data.material_type,
           density_kg_m3 |-> density]

\* descriptions a survey may answer with
Descriptions ==
  { <<>>,
    <<"B", "a", "s", "a", "l", "t">>,
    <<"b", "a", "s", "a", "l", "t", " ", "f", "l", "o", "w">>,
    <<"s", "a", "n", "d">>,
    <<"S", "a", "n", "d", "s", "t", "o", "n", "e">>,
    <<"p", "u", "m", "i", "c", "e">>,
    <<"g", "l", "a", "c", "i", "a", "l", " ", "i", "c", "e">>,
    <<"v", "o", "l", "c", "a", "n", "i", "c", " ", "t", "u", "f", "f">>,
    <<"s", "e", "d", "i", "m", "e", "n", "t", "a", "r", "y", " ", "r", "o", "c", "k">>,
    <<"m", "e", "t", "a", "m", "o", "r", "p", "h", "i", "c">>,
    <<"u", "n", "c", "o", "n", "s", "o", "l", "i", "d", "a", "t", "e", "d">>,
    <<"a", "l", "l", "u", "v", "i", "u", "m">>,
    <<"s", "a", "n", "d", "y", " ", "c", "l", "a", "y">> }

Regions == {"USGS", "BGS", "Mars"}

WfsResponses ==
  [content_type : {"application/json", "text/xml"}, features : BOOLEAN,
   field : {"ROCK_D", "DESCRIPTION"}, text : Descriptions]

GeologyCalls == [coords : Coords, region : Regions, response : WfsResponses]

GeologyInit ==
  /\ RunsIdle
  /\ eng \in {[input |-> c, now |-> 0, results |-> <<>>] : c \in GeologyCalls}

\* the adapter is asked for the geology of the impact site
GeologyCall ==
  /\ Len(eng.results) < MaxCalls
  /\ eng' = [eng EXCEPT !.results = Append(@, ExtractGeologicalData(eng.input))]
  /\ UNCHANGED <<runVars, reply>>

GeologySpec == GeologyInit /\ [][GeologyCall]_vars

\* ------------------------------------------------------------- helpers
Range(f) == { f[i] : i \in DOMAIN f }

\* a sequence without its immediate repetitions
RECURSIVE Dedup(_)
Dedup(q) ==
  IF Len(q) <= 1 THEN q
  ELSE IF q[1] = q[2] THEN Dedup(Tail(q))
  ELSE <<q[1]>> \o Dedup(Tail(q))

StatusesOf(h) == Dedup([i \in 1..Len(h) |-> h[i][1]])

ProgressOf(h) == Dedup([i \in 1..Len(h) |-> h[i][2]])

\* the exception came out of a stage itself: its adapter, the persisting of
\* its record, or the engine (not out of a progress write between stages)
StageKinds == {"adapter", "latitude", "longitude", "persist", "engine"}

StageFailed(r) == failedAt[r].stage \in Stages /\ failedAt[r].kind \in StageKinds

\* the call of run r has given control back to its caller
Ended(r) == pc[r] \in {"returned", "raised", "cancelled"}

\* the moves of a session status the state machine allows (or no move)
StatusMove(a, b) ==
  \/ a = b
  \/ a = "absent" /\ b = "pending"
  \/ a = "pending" /\ b = "in_progress"
  \/ a = "in_progress" /\ b \in {"completed", "failed"}

\* ---------------------------------------------------------------- claims

\* C1: in every step, the status of every session object and of every stored
\* session row either stays or moves pending -> in_progress -> completed /
\* failed; completed and failed are never left.
C1_StatusOneWay ==
  [][ /\ \A r \in Runs : StatusMove(sess[r].status, sess'[r].status)
      /\ \A id \in ExtractionIds : StatusMove(rows[id].status, rows'[id].status) ]_vars

\* C2: once a run in which the four adapters and the engine stage succeeded
\* has ended, the progress values written to its session are exactly
\* 0, 20, 40, 60, 80, 100 and the statuses exactly pending, in_progress,
\* completed.
C2_SuccessSequence ==
  \A r \in Runs :
    (Ended(r) /\ calls[r] = <<1, 2, 3, 4, 5>> /\ facts[xid[r]][5] > 0)
      => /\ ProgressOf(hist[xid[r]]) = <<0, 20, 40, 60, 80, 100>>
         /\ StatusesOf(hist[xid[r]]) = <<"pending", "in_progress", "completed">>

C4_FullOnlyWhenCompleted ==
  \A id \in ExtractionIds : rows[id].progress = 100 => rows[id].status = "completed"

\* C5: a call with a latitude or longitude out of range creates no session
\* and invokes no adapter.
C5_RejectedBeforeSession ==
  \A r \in Runs :
    (pc[r] # "idle" /\ ~ValidCoordinates(loc[r][1], loc[r][2]))
      => /\ sess[r].status = "absent"
         /\ calls[r] = <<>>

\* C6: when a stage of a run has raised and the call has given control back,
\* the stored row is failed with the error recorded, the same error reached
\* the caller, and the session was never completed.
C6_FailurePersisted ==
  \A r \in Runs :
    (pc[r] = "raised" /\ StageFailed(r))
      => /\ rows[xid[r]].status = "failed"
         /\ Len(rows[xid[r]].errors) = 1
         /\ rows[xid[r]].errors[1].error = Message(failedAt[r])
         /\ raised[r] = Message(failedAt[r])
         /\ "completed" \notin Range(StatusesOf(hist[xid[r]]))

\* C7: a run cancelled while it awaited an adapter has left its session
\* failed by the time the cancelled call is over (no step of it follows).
C7_CancelledIsFailed ==
  \A r \in Runs : pc[r] = "cancelled" => rows[xid[r]].status = "failed"

\* C8: every get_status reply is the stored row when the id has one and
\* NotFound otherwise; every get_results reply is a result exactly when the
\* id has a row whose status is completed, NotFound when it has no row and
\* NotReady when the row is pending, in_progress or failed, and then it
\* carries no fact.
C8_QueryReplies ==
  [][ reply' # reply =>
        LET id == reply'.id
            row == rows[id]
        IN /\ reply'.op = "get_status" =>
                /\ (row.status = "absent") <=> (reply'.kind = "NotFound")
                /\ (row.status # "absent") <=> (reply'.kind = "status")
                /\ reply'.kind = "status" => reply'.session = row
           /\ reply'.op = "get_results" =>
                /\ (row.status = "completed") <=> (reply'.kind = "result")
                /\ (row.status = "absent") <=> (reply'.kind = "NotFound")
                /\ (row.status \in {"pending", "in_progress", "failed"})
                     <=> (reply'.kind = "NotReady")
                /\ reply'.kind # "result" =>
                     reply'.session = NoSession /\ reply'.found = NoFacts
                /\ reply'.kind = "result" =>
                     reply'.session = row /\ \A k \in Stages : reply'.found[k] = 1 ]_vars

\* C8 witness: the results of a failed run that had persisted its asteroid
\* record were asked for and refused.
C8_Witness ==
  /\ reply.op = "get_results" /\ reply.kind = "NotReady"
  /\ rows[reply.id].status = "failed"
  /\ facts[reply.id][1] > 0

\* C9: a session whose status is completed, in the store or in a run's
\* object, has its impact calculation and its four facts in the store.
C9_CompletedHasResult ==
  /\ \A id \in ExtractionIds :
       rows[id].status = "completed" => \A k \in Stages : facts[id][k] >= 1
  /\ \A r \in Runs :
       sess[r].status = "completed" => \A k \in Stages : facts[xid[r]][k] >= 1

\* C9 witness: a session is completed in the store.
C9_Witness ==
  \E id \in ExtractionIds : rows[id].status = "completed" /\ facts[id][5] = 1

\* C10: the stages of a run are invoked in the order 1..5, each at most
\* once; stage k is invoked only when the record of stage k - 1 is in the
\* store and checkpoint 20 * (k - 1) is written; a run that returned has
\* invoked the engine exactly once.
C10_StageOrder ==
  \A r \in Runs :
    /\ \E n \in 0..5 : calls[r] = [i \in 1..n |-> i]
    /\ \A k \in 2..5 :
         k \in Range(calls[r]) =>
           /\ facts[xid[r]][k - 1] >= 1
           /\ rows[xid[r]].progress >= Checkpoint(k - 1)
    /\ pc[r] = "returned" => calls[r] = <<1, 2, 3, 4, 5>>

\* C10 witness: a run has returned after the engine was invoked as the
\* fifth and last call.
C10_Witness ==
  \E r \in Runs : pc[r] = "returned" /\ Len(calls[r]) = 5 /\ calls[r][5] = 5

\* how often stage k was invoked in the call sequence q
Invocations(q, k) == Cardinality({i \in DOMAIN q : q[i] = k})

\* C11: no retries.  In every step each adapter and the engine have been
\* invoked at most once by every run, and once an exception has reached the
\* except clause of a run, that run invokes no adapter and no engine any more.
C11_NoRetries ==
  [][ \A r \in Runs :
        /\ \A k \in Stages : Invocations(calls'[r], k) <= 1
        /\ failedAt[r].stage # 0 => calls'[r] = calls[r] ]_vars

\* C11 witness: the topography adapter of a run failed; the run has ended
\* having invoked the asteroid and the topography adapter once each, and
\* nothing after them.
C11_Witness ==
  \E r \in Runs :
    /\ pc[r] = "raised" /\ failedAt[r] = [stage |-> 2, kind |-> "adapter"]
    /\ calls[r] = <<1, 2>>

\* the session writes run r leaves in the store when it runs alone, as a
\* function of how far r itself has come: created, begun, the checkpoints
\* of the stages behind it, completed, and failed when the except clause's
\* commit went through
SoloHist(r) ==
  LET n == IF stage[r] = 0 THEN 0 ELSE IF stage[r] = 6 THEN 4 ELSE stage[r] - 1
      created == IF sess[r].status = "absent"
                   THEN <<>> ELSE << <<"pending", 0, "Initializing">> >>
      begun == IF stage[r] >= 1
                 THEN << <<"in_progress", 0, StepLabel(0)>> >> ELSE <<>>
      marks == [k \in 1..n |-> <<"in_progress", Checkpoint(k), StepLabel(k)>>]
      done == IF stage[r] = 6 THEN << <<"completed", 100, "Completed">> >> ELSE <<>>
      failed == IF pc[r] = "raised" /\ sess[r].status = "failed" /\ ~txFailed[r]
                  THEN << <<"failed", sess[r].progress, sess[r].current_step>> >>
                  ELSE <<>>
  IN created \o begun \o marks \o done \o failed

\* what run r holds for itself
Local(r) == <<pc[r], stage[r], xid[r], loc[r], sess[r], calls[r], failedAt[r],
              txFailed[r], raised[r]>>

\* the session row, the fact records and the write history stored under id
Stored(id) == <<rows[id], facts[id], hist[id]>>

\* no other run carries the extraction_id of run r
OwnId(r) == xid[r] # "none" /\ \A q \in Runs \ {r} : xid[q] # xid[r]

\* C12: runs with distinct extraction ids do not interfere.  For a run whose
\* id no other run carries, after every step of any interleaving the
\* (status, progress, current_step) values written to its session are those
\* the run writes alone, the stored row is the last of them, and the row of a
\* run that ended without a failed commit is the run's own session object;
\* and a step of one run changes neither what another run holds nor the
\* row, fact records and history stored under another run's id.
C12_RunsIndependent ==
  [][ /\ \A r \in Runs :
           OwnId(r)' =>
             /\ hist'[xid'[r]] = SoloHist(r)'
             /\ Len(hist'[xid'[r]]) > 0 =>
                  LET last == hist'[xid'[r]][Len(hist'[xid'[r]])]
                      row == rows'[xid'[r]]
                  IN last = <<row.status, row.progress, row.current_step>>
             /\ (Ended(r)' /\ ~txFailed'[r]) => rows'[xid'[r]] = sess'[r]
      /\ \A q, r \in Runs :
           (pc'[q] # pc[q] /\ r # q) =>
             /\ Local(r)' = Local(r)
             /\ (xid[r] # "none" /\ xid[r] # xid'[q]) => Stored(xid[r])' = Stored(xid[r]) ]_vars

\* C12 witness: two runs with distinct ids are under way at the same time,
\* one about to write the checkpoint of stage 2, the other about to store
\* the record of stage 4.
C12_Witness ==
  \E r, q \in Runs :
    /\ OwnId(r) /\ OwnId(q) /\ xid[r] # xid[q]
    /\ pc[r] = "checkpoint" /\ stage[r] = 2
    /\ pc[q] = "save" /\ stage[q] = 4
    /\ hist[xid[q]] = SoloHist(q)

\* C13: the id the extract-async route has returned can be used to check the
\* status: every get_status request made with an id that the route has
\* already handed out is answered with the session record, never NotFound.
C13_IssuedIdIsFound ==
  [][ ( /\ reply' # reply
        /\ reply'.op = "get_status"
        /\ \E r \in Runs : pc[r] # "idle" /\ xid[r] = reply'.id )
      => reply'.kind = "status" ]_vars

\* C14: for every session the store holds at most one asteroid record, one
\* topography record, one geological record, one regional record and one
\* impact calculation.
C14_OneRecordPerStage ==
  \A id \in ExtractionIds : \A k \in Stages : facts[id][k] <= 1

\* C14 witness: a session has all five records, and a second run that was
\* started with the same extraction_id has been turned away.
C14_Witness ==
  \E id \in ExtractionIds :
    /\ \A k \in Stages : facts[id][k] = 1
    /\ \E r \in Runs : xid[r] = id /\ raised[r] = "IntegrityError"

\* C15: the engine is deterministic: all results it has returned for the
\* same input, whenever the calls were made, are equal in every field.
C15_Deterministic ==
  \A m, n \in DOMAIN eng.results : eng.results[m] = eng.results[n]

\* C16: every result has no tsunami section when is_land is true, whatever
\* the water depth, and none when is_land is false and the depth is not
\* positive; when is_land is false and the depth is positive it has one, and
\* the initial wave height and the wave height at every distance are at
\* least 0.1 m.
C16_TsunamiPresence ==
  \A n \in DOMAIN eng.results :
    LET i == eng.input
        t == eng.results[n].tsunami
    IN /\ i.is_land => ~t.present
       /\ (~i.is_land /\ i.water_depth_m <= 0) => ~t.present
       /\ (~i.is_land /\ i.water_depth_m > 0) =>
            /\ t.present
            /\ t.initial_wave_height >= MinWave
            /\ \A d \in Distances : t.wave_heights[d] >= MinWave

\* C17: in every result the blast radii are strictly decreasing with the
\* overpressure: radius(1 psi) > radius(2.5 psi) > radius(5 psi) >
\* radius(15 psi).
C17_BlastRadiiOrdered ==
  \A n \in DOMAIN eng.results :
    LET radius == eng.results[n].airblast.blast_radii
    IN radius[10] > radius[25] /\ radius[25] > radius[50] /\ radius[50] > radius[150]

\* C18: for positive diameter, velocity and densities, and any is_land and a
\* water depth of zero or more, every call of calculate_impact_effects returns
\* a result: none ends in an exception.
C18_NeverRaises ==
  \A n \in DOMAIN eng.results :
    (/\ eng.input.diameter_m.k = "num"
     /\ eng.input.velocity_ms.k = "num"
     /\ eng.input.density_kg_m3.k = "num"
     /\ eng.input.target_density_kg_m3.k = "num"
     /\ eng.input.water_depth_m.k \in {"num", "zero"})
    => eng.results[n].k = "result"

\* the run has got past the coordinate test of the topography adapter
PastCoordinateTest(r) ==
  \/ stage[r] > 2
  \/ stage[r] = 2 /\ pc[r] \in {"save", "checkpoint"}

\* C19: the coordinate test is inclusive at its bounds.  A run whose latitude
\* is within -90..90 and whose longitude is within -180..180, the values 90,
\* -90, 180 and -180 themselves included, is never failed for its latitude or
\* its longitude; a run with a latitude or longitude beyond them, by as
\* little as 0.0001 degree, never gets past the test, and the test is what
\* fails it there: with "Invalid latitude" if the latitude is out of range,
\* else with "Invalid longitude".
C19_BoundsInclusive ==
  \A r \in Runs :
    (pc[r] # "idle") =>
      LET lat == loc[r][1]
          lon == loc[r][2]
          inRange == /\ -LatLimit <= lat /\ lat <= LatLimit
                     /\ -LonLimit <= lon /\ lon <= LonLimit
      IN /\ inRange => failedAt[r].kind \notin {"latitude", "longitude"}
         /\ ~inRange =>
              /\ ~PastCoordinateTest(r)
              /\ (failedAt[r].stage = 2 /\ failedAt[r].kind # "checkpoint") =>
                   failedAt[r].kind =
                     IF lat < -LatLimit \/ lat > LatLimit THEN "latitude" ELSE "longitude"

\* a run at latitude -90, longitude -180 has passed the test and one at
\* latitude 90.0001 has been failed by it
C19_Witness ==
  \E r, q \in Runs :
    /\ loc[r] = <<-LatLimit, -LonLimit>> /\ PastCoordinateTest(r)
    /\ loc[q] = <<LatLimit + 1, 0>>
    /\ failedAt[q] = [stage |-> 2, kind |-> "latitude"]

\* the stage a failed record points at: progress_percentage is 20 k once k
\* stages have succeeded, so the stage that was running is k + 1 (6 stands for
\* the finalisation after the fifth stage)
RecordedStage(record) == record.progress \div 20 + 1

\* the cause a failed record carries
RecordedCause(record) == record.errors[1].error

HasProvenance(x) ==
  /\ {"calculation_method", "calculation_version"} \subseteq DOMAIN x
  /\ x.calculation_method = "simplified_scaling_laws"
  /\ x.calculation_version = "1.0"

\* C21: every result carries calculation_method = "simplified_scaling_laws"
\* and calculation_version = "1.0": the value the engine returns, the
\* ImpactCalculation record persisted from it, and the impact_calculation
\* section that get_extraction_results makes from the record.
C21_Provenance ==
  \A n \in DOMAIN eng.results :
    /\ HasProvenance(eng.results[n])
    /\ HasProvenance(ImpactCalculationRecord(eng.results[n]))
    /\ HasProvenance(ImpactCalculationSection(ImpactCalculationRecord(eng.results[n])))

\* the results of the calls made with the input itself and with a variant
Compared(variant) ==
  { <<eng.results[m].ke, eng.results[n].ke>> :
      m \in {k \in DOMAIN eng.results : eng.results[k].variant = "same"},
      n \in {k \in DOMAIN eng.results : eng.results[k].variant = variant} }

Within(x, y, k) ==
  LET low == IF x.e < y.e THEN x.e ELSE y.e
      high == IF x.e < y.e THEN y.e ELSE x.e
      a == x.m * 2 ^ (x.e - low)
      b == y.m * 2 ^ (y.e - low)
  IN (IF a < b THEN b - a ELSE a - b) <= k * 2 ^ (high - low)

C23_FallbackOnNonConvergence ==
  \A n \in DOMAIN eng.results :
    eng.results[n].loop = "exhausted" => eng.results[n].radius = eng.results[n].fallback

\* C24: the fact of an adapter stage and the session's checkpoint are stored
\* as one update.  No committed state of the store holds the fact record of
\* stage k = 1..4 while the stored session's progress is below 20 k, and no
\* commit changes the stored progress without changing current_step with it.
C24_FactAndCheckpointAtomic ==
  /\ [](\A id \in ExtractionIds : \A k \in Adapters :
          facts[id][k] > 0 => rows[id].progress >= Checkpoint(k))
  /\ [][\A id \in ExtractionIds :
          rows'[id].progress # rows[id].progress =>
            rows'[id].current_step # rows[id].current_step]_vars

\* elapsed_seconds of a session record agrees with its status: set only in a
\* terminal status, and set in status completed
ElapsedAgrees(record) ==
  /\ record.elapsed = "set" => record.status \in {"completed", "failed"}
  /\ record.status \in {"pending", "in_progress"} => record.elapsed = "unset"
  /\ record.status = "completed" => record.elapsed = "set"

C26_PositiveDiameterAndVelocity ==
  \A n \in DOMAIN eng.results :
    eng.results[n].kind = "record" =>
      eng.results[n].diameter_m > 0 /\ eng.results[n].velocity_ms > 0

\* the errors list of a session record is non-empty exactly in status failed,
\* and then it has one entry
ErrorsAgree(record) ==
  /\ Len(record.errors) > 0 <=> record.status = "failed"
  /\ Len(record.errors) <= 1

\* C27: in every session state the errors list is non-empty if and only if
\* the status is failed: a pending, in_progress or completed session has no
\* error entry and a failed session has exactly one.  This holds for every
\* stored row and for the session object of every run.
C27_ErrorsIffFailed ==
  /\ \A id \in ExtractionIds : ErrorsAgree(rows[id])
  /\ \A r \in Runs : ErrorsAgree(sess[r])

\* one session is stored as failed with its error entry and another one as
\* completed without any
C27_Witness ==
  \E id, other \in ExtractionIds :
    /\ rows[id].status = "failed" /\ Len(rows[id].errors) = 1
    /\ rows[other].status = "completed" /\ rows[other].errors = <<>>

\* C28: session ids are unique. When extract_comprehensive_data is called
\* with an extraction_id that already identifies a stored session, whatever
\* its status, the call raises, the stored session, its history and its
\* facts stay as they were, and the run never invokes an adapter.
TurnedAway(r) == raised[r] = "IntegrityError"

C28_DuplicateIdRejected ==
  /\ [](\A r \in Runs : TurnedAway(r) => pc[r] = "raised" /\ calls[r] = <<>>)
  /\ [][\A r \in Runs : \A id \in ExtractionIds :
          ( /\ pc[r] = "idle" /\ pc'[r] # "idle" /\ xid'[r] = id
            /\ rows[id].status # "absent" )
          => /\ TurnedAway(r)'
             /\ rows' = rows /\ hist' = hist /\ facts' = facts
             /\ calls'[r] = <<>> ]_vars

\* C28 witness: a run was turned away while the session its id names is
\* still in progress, and it has invoked no adapter.
C28_Witness ==
  \E r \in Runs :
    /\ TurnedAway(r) /\ calls[r] = <<>>
    /\ rows[xid[r]].status = "in_progress"

\* C29: for every geological sample that extract_geological_data returns,
\* the density is the one DENSITY_MAPPING gives for the classified material
\* type (2850 for basalt, 1600 for sand).
C29_DensityAgreesWithMaterial ==
  \A n \in DOMAIN eng.results :
    eng.results[n].kind = "record"
      => eng.results[n].density_kg_m3 = DensityOf(eng.results[n].material_type)

\* C30: for every kinetic energy above zero and every overpressure level the
\* radius that _solve_overpressure_radius returns is strictly positive: no
\* iterate that is zero or negative becomes a blast radius or the radius of
\* a damage zone.
C30_RadiusStrictlyPositive ==
  \A n \in DOMAIN eng.results :
    eng.input > 0
      => eng.results[n].blast_radius > 0 /\ eng.results[n].zone_radius > 0

====
